---------------------------- MODULE Spec2Model ----------------------------
(***************************************************************************)
(* A model of the LMTP scheduler (src/lmql/models/lmtp/lmtp_scheduler.py): *)
(* the process-wide registry of schedulers (Scheduler._instances, instance,*)
(* unregister, dealloc, gc), the per-scheduler worker (async_worker,       *)
(* batches, process_batch, TokenStreamer, ScoreStreamer) and the           *)
(* per-client TokenSession (handle, queue_loop, close).                    *)
(***************************************************************************)
EXTENDS Integers, Sequences, FiniteSets, TLC

(***************************************************************************)
(* Bounds of the model.                                                    *)
(***************************************************************************)
\* commands handled by all sessions together
MaxCmds == 3
\* the same, where two clients share two models (SpecRegistry)
MaxRegistryCmds == 2
\* calls of instance and gc made by all threads together (SpecThreads)
MaxThreadCalls == 3
\* scheduler objects ever constructed
MaxSched == 3
\* largest max_tokens a client asks for
MaxTok == 1
\* largest number of scored tokens of a SCORE command
MaxScored == 1
\* the backend's max_batch_size
MaxBatchSize == 2

(***************************************************************************)
(* Program constants.                                                      *)
(***************************************************************************)
\* gc(n = 2, ...): the default retention threshold
DefaultMinLoaded == 2
\* close(): Scheduler.gc(0) of a session that is not longrunning
AggressiveMinLoaded == 0

Sessions == {1, 2}
None == 0
Models == {"m1", "m2"}
\* a client numbers its commands: stream ids are unique
StreamIds == 1..(IF MaxCmds > MaxRegistryCmds THEN MaxCmds ELSE MaxRegistryCmds)
\* the backend's eos_token_id and one other token of the vocabulary
EOS == 0
Tok == 42
Tokens == {EOS, Tok}

\* the scores of one row: the log-probability of every token, no two equal
Scores == {row \in [Tokens -> {-1, -2}] : row[EOS] # row[Tok]}
TokFirst == [t \in Tokens |-> IF t = Tok THEN -1 ELSE -2]
Temperatures == {0}

(***************************************************************************)
(* model_args is a dict: a sequence of <<key, value>> items in insertion   *)
(* order.  Two dicts are equal (Python ==) when they hold the same items,  *)
(* in whatever order.                                                      *)
(***************************************************************************)
ArgsA == << <<"device", "cuda">>, <<"dtype", "fp16">> >>
ArgsB == << <<"dtype", "fp16">>, <<"device", "cuda">> >>
ArgDicts == {ArgsA, ArgsB}

DictEq(a, b) == {a[i] : i \in DOMAIN a} = {b[i] : i \in DOMAIN b}

\* pickle.dumps(d).hex() of a dict: EMPTY_DICT, MARK, every key and value in
\* the dict's iteration (insertion) order, SETITEMS, STOP.
RECURSIVE pickle_items(_)
pickle_items(d) ==
    IF d = << >> THEN << >>
    ELSE << Head(d)[1], Head(d)[2] >> \o pickle_items(Tail(d))

pickle_dumps(d) == << "}", "(" >> \o pickle_items(d) \o << "u", "." >>

\* identifier = (model_identifier, pickle.dumps(model_args).hex())
identifier(model_identifier, model_args) ==
    << model_identifier, pickle_dumps(model_args) >>

Keys == {identifier(m, a) : m \in Models, a \in ArgDicts}

VARIABLES
    instances,      \* Scheduler._instances: identifier -> scheduler (0: absent)
    schedulers,     \* every Scheduler object constructed so far
    calls,          \* every GenerateCall constructed so far
    sessions,       \* the TokenSession objects
    output_stream,  \* session -> its output queue
    transport,      \* session -> what transport.send has delivered
    enqueued,       \* session -> every payload ever put on output_stream
    cancellable,    \* the backend's model.cancellable
    ncmds,          \* commands handled so far
    last            \* the operation that produced this state

vars == << instances, schedulers, calls, sessions, output_stream, transport,
           enqueued, cancellable, ncmds, last >>

(***************************************************************************)
(* Scheduler.__init__: a fresh scheduler, its worker thread started.       *)
(*   wpc     where the worker is: load, idle, gen, score, exited           *)
(*   todo    the batches of the current drain not finished yet             *)
(*   held    the calls the worker's frame still references                 *)
(*   k       streamer invocations of the running generate                  *)
(*   toks    the last token of every row of the running generate           *)
(*   scores  the last scores of every row of the running generate          *)
(*   fin     rows of the running generate that have produced EOS           *)
(***************************************************************************)
Scheduler(model_identifier, model_args) ==
    [ model_identifier |-> model_identifier,
      model_args |-> model_args,
      queue |-> << >>,
      kill_event |-> FALSE,
      users |-> {},
      wpc |-> "load",
      todo |-> << >>,
      held |-> {},
      k |-> 0,
      toks |-> << >>,
      scores |-> << >>,
      fin |-> {} ]

\* the registry as one value, so that instance, gc and dealloc compose
Registry == [inst |-> instances, sch |-> schedulers]

Loaded(R) == {id \in Keys : R.inst[id] # 0}

\* Scheduler.dealloc of the schedulers under the identifiers ks: each is
\* popped from _instances and its kill_event set (join: see Joined).
dealloc(R, ks) ==
    [ inst |-> [id \in Keys |-> IF id \in ks THEN 0 ELSE R.inst[id]],
      sch |-> [i \in DOMAIN R.sch |->
                 IF \E id \in ks : R.inst[id] = i
                 THEN [R.sch[i] EXCEPT !.kill_event = TRUE]
                 ELSE R.sch[i]] ]

\* a gc that takes no account of users
gcUsedToo(R, n) ==
    IF Cardinality(Loaded(R)) >= n THEN dealloc(R, Loaded(R)) ELSE R

\* Scheduler.gc(n)
gc(R, n) ==
    LET total == Cardinality(Loaded(R))
        not_needed == {id \in Loaded(R) : R.sch[R.inst[id]].users = {}}
    IN IF total >= n THEN dealloc(R, not_needed) ELSE R

\* Scheduler.unregister
unregister(R, s, user) ==
    [R EXCEPT !.sch[s].users = @ \ {user}]

\* an instance that ignores only_existing
instanceLoadsAnyway(R, model_identifier, model_args, user, only_existing) ==
    LET id == identifier(model_identifier, model_args)
        R1 == IF R.inst[id] = 0
              THEN [ inst |-> [R.inst EXCEPT ![id] = Len(R.sch) + 1],
                     sch |-> Append(R.sch,
                                    Scheduler(model_identifier, model_args)) ]
              ELSE R
        s == R1.inst[id]
        R2 == IF user # None THEN [R1 EXCEPT !.sch[s].users = @ \cup {user}]
              ELSE R1
    IN [reg |-> gc(R2, DefaultMinLoaded), ret |-> s, raised |-> FALSE]

\* Scheduler.instance: [reg: the registry afterwards, ret: the scheduler
\* returned, raised: LMTPCannotLoadModelByPolicy]
instance(R, model_identifier, model_args, user, only_existing) ==
    LET id == identifier(model_identifier, model_args)
    IN IF R.inst[id] = 0 /\ only_existing
       THEN [reg |-> R, ret |-> 0, raised |-> TRUE]
       ELSE LET R1 == IF R.inst[id] = 0
                      THEN [ inst |-> [R.inst EXCEPT ![id] = Len(R.sch) + 1],
                             sch |-> Append(R.sch,
                                       Scheduler(model_identifier, model_args)) ]
                      ELSE R
                s == R1.inst[id]
                R2 == IF user # None
                      THEN [R1 EXCEPT !.sch[s].users = @ \cup {user}]
                      ELSE R1
            IN [reg |-> gc(R2, DefaultMinLoaded), ret |-> s, raised |-> FALSE]


NotLoadedMsg == "The requested model is not loaded"
CancelledMsg == "lmtp.cancelled"
FailedMsg == "failed to generate tokens"

(***************************************************************************)
(* GenerateCall.  kwargs is a dict: a function from the keys present.      *)
(* result_queue is the output_stream of the session that made the call.    *)
(***************************************************************************)
Get(kwargs, key, default) ==
    IF key \in DOMAIN kwargs THEN kwargs[key] ELSE default

GenerateCall(prompt, kwargs, stream_id, result_queue) ==
    [ prompt |-> prompt, kwargs |-> kwargs, stream_id |-> stream_id,
      result_queue |-> result_queue, cancelled |-> FALSE ]

\* a payload on an output queue; call and step are bookkeeping of the model
\* (which call and which streamer invocation produced it), not sent fields
Payload(type, stream_id, call, body, token, finish_reason, step) ==
    [ type |-> type, stream_id |-> stream_id, call |-> call, body |-> body,
      token |-> token, finish_reason |-> finish_reason, step |-> step ]

\* GenerateCall.error
error(c, msg) == Payload("TOKEN", calls[c].stream_id, c, msg, 0, "none", 0)

\* MSG payloads of TokenSession.handle
Msg(stream_id, body) == Payload("MSG", stream_id, 0, body, 0, "none", 0)

\* GenerateCall.generation_mode: "score", or "generate-" and the sorted
\* key-value items of kwargs without max_tokens and top_logprobs, with
\* temperature defaulting to 0.0.  The sorted item list is given as the set
\* of its items.
generation_mode(c) ==
    IF Get(c.kwargs, "score", FALSE) THEN << "score", {} >>
    ELSE LET keys == (DOMAIN c.kwargs \ {"max_tokens", "top_logprobs"})
                        \cup {"temperature"}
         IN << "generate",
               {<< k, Get(c.kwargs, k, 0) >> : k \in keys} >>

(***************************************************************************)
(* GenerateBatch.from_calls over the calls cs (a sequence of call ids).    *)
(***************************************************************************)
RECURSIVE SeqMax(_)
SeqMax(s) ==
    IF Len(s) = 1 THEN s[1]
    ELSE LET m == SeqMax(Tail(s)) IN IF s[1] >= m THEN s[1] ELSE m

Repeat(x, n) == [i \in 1..n |-> x]

\* a batch whose rows pad with zeros on the right
from_callsRightPadded(cs) ==
    LET max_len == SeqMax([i \in DOMAIN cs |-> Len(calls[cs[i]].prompt)])
        is_score == \E i \in DOMAIN cs : Get(calls[cs[i]].kwargs, "score", FALSE)
    IN [ input_ids |-> [i \in DOMAIN cs |->
             calls[cs[i]].prompt
                 \o Repeat(0, max_len - Len(calls[cs[i]].prompt))],
         attention_mask |-> [i \in DOMAIN cs |->
             Repeat(1, Len(calls[cs[i]].prompt))
                 \o Repeat(0, max_len - Len(calls[cs[i]].prompt))],
         temperature |-> Get(calls[cs[1]].kwargs, "temperature", 0),
         max_tokens |-> SeqMax([i \in DOMAIN cs |->
             Get(calls[cs[i]].kwargs, "max_tokens", 32)]),
         calls |-> cs,
         is_score |-> is_score,
         scoring_offsets |-> IF is_score
             THEN [i \in DOMAIN cs |->
                     Get(calls[cs[i]].kwargs, "scoring_offset", 0)
                       + (max_len - Len(calls[cs[i]].prompt))]
             ELSE << >> ]

from_calls(cs) ==
    LET max_len == SeqMax([i \in DOMAIN cs |-> Len(calls[cs[i]].prompt)])
        is_score == \E i \in DOMAIN cs : Get(calls[cs[i]].kwargs, "score", FALSE)
    IN [ input_ids |-> [i \in DOMAIN cs |->
             Repeat(0, max_len - Len(calls[cs[i]].prompt))
                 \o calls[cs[i]].prompt],
         attention_mask |-> [i \in DOMAIN cs |->
             Repeat(0, max_len - Len(calls[cs[i]].prompt))
                 \o Repeat(1, Len(calls[cs[i]].prompt))],
         temperature |-> Get(calls[cs[1]].kwargs, "temperature", 0),
         max_tokens |-> SeqMax([i \in DOMAIN cs |->
             Get(calls[cs[i]].kwargs, "max_tokens", 32)]),
         calls |-> cs,
         is_score |-> is_score,
         scoring_offsets |-> IF is_score
             THEN [i \in DOMAIN cs |->
                     Get(calls[cs[i]].kwargs, "scoring_offset", 0)
                       + (max_len - Len(calls[cs[i]].prompt))]
             ELSE << >> ]

\* a cancelled() that one cancelled call satisfies
batch_cancelledAny(cs) == \E i \in DOMAIN cs : calls[cs[i]].cancelled

\* GenerateBatch.cancelled: not any(not c.cancelled for c in self.calls)
batch_cancelled(cs) == ~ \E i \in DOMAIN cs : ~ calls[cs[i]].cancelled

(***************************************************************************)
(* Scheduler.batches: the drained calls grouped by generation_mode (the    *)
(* groups in the order their mode first appears), every group cut into     *)
(* chunks of at most max_batch_size.                                       *)
(***************************************************************************)
RECURSIVE modes_of(_)
modes_of(cs) ==
    IF cs = << >> THEN << >>
    ELSE LET rest == modes_of(SubSeq(cs, 1, Len(cs) - 1))
             mode == generation_mode(calls[cs[Len(cs)]])
         IN IF \E i \in DOMAIN rest : rest[i] = mode THEN rest
            ELSE Append(rest, mode)

RECURSIVE chunks(_, _)
chunks(group, max_batch_size) ==
    IF Len(group) > max_batch_size
    THEN << SubSeq(group, 1, max_batch_size) >>
           \o chunks(SubSeq(group, max_batch_size + 1, Len(group)),
                     max_batch_size)
    ELSE << group >>

RECURSIVE fitting(_, _, _)
fitting(modes, cs, max_batch_size) ==
    IF modes = << >> THEN << >>
    ELSE LET mode == Head(modes)
             group == SelectSeq(cs, LAMBDA c : generation_mode(calls[c]) = mode)
         IN chunks(group, max_batch_size)
              \o fitting(Tail(modes), cs, max_batch_size)

\* batches that cut the drained calls into chunks without grouping them
batchesUngrouped(cs, max_batch_size) == chunks(cs, max_batch_size)

batches(cs, max_batch_size) == fitting(modes_of(cs), cs, max_batch_size)

(***************************************************************************)
(* TokenStreamer.log_token past its cancellation check: one payload per    *)
(* row, in row order.  toks[i] is the last token of row i and scores[i]    *)
(* the log-probability of every token of the vocabulary in row i.          *)
(***************************************************************************)
finish_reason(token, lastInvocation) ==
    IF token = EOS THEN "stop" ELSE IF lastInvocation THEN "length" ELSE "none"

\* nputil.topk(last_scores, k, sorted=True): the k tokens of the highest
\* scores of a row, the highest first
RECURSIVE topk(_, _, _)
topk(row, k, from) ==
    IF k = 0 \/ from = {} THEN << >>
    ELSE LET best == CHOOSE t \in from : \A u \in from : row[u] <= row[t]
         IN << best >> \o topk(row, k - 1, from \ {best})

max_num_top_logprobs(cs) ==
    SeqMax([i \in DOMAIN cs |-> Get(calls[cs[i]].kwargs, "top_logprobs", 1)])

\* the dictionary top_logprobs of row i as the set of its items: the
\* emitted token and the top max_num_top_logprobs tokens of the row
top_logprobs(cs, toks, scores, i) ==
    LET tokens == topk(scores[i], max_num_top_logprobs(cs), Tokens)
    IN {<< toks[i], scores[i][toks[i]] >>}
          \cup {<< tokens[j], scores[i][tokens[j]] >> : j \in DOMAIN tokens}

log_token(cs, toks, scores, lastInvocation, step) ==
    [i \in DOMAIN cs |->
        Payload("TOKEN", calls[cs[i]].stream_id, cs[i], "token", toks[i],
                finish_reason(toks[i], lastInvocation), step)
          @@ [logprob |-> scores[i][toks[i]],
              top_logprobs |-> top_logprobs(cs, toks, scores, i)]]

\* a streamer that never raises, and one that raises on any cancelled call
interruptedNever(cs) == FALSE

interruptedOnAny(cs) == batch_cancelledAny(cs) /\ cancellable

\* the check at the head of log_token that raises InterruptedError
interrupted(cs) == batch_cancelled(cs) /\ cancellable

(***************************************************************************)
(* ScoreStreamer.log_token: for every row the payloads of its scored       *)
(* tokens, finish_reason "stop" on the last one.                           *)
(***************************************************************************)
RECURSIVE Flatten(_)
Flatten(ss) == IF ss = << >> THEN << >> ELSE Head(ss) \o Flatten(Tail(ss))

score_log_token(b) ==
    Flatten([i \in DOMAIN b.calls |->
        LET offset == b.scoring_offsets[i]
            scored_ids == SubSeq(b.input_ids[i], offset + 1, Len(b.input_ids[i]))
        IN [j \in DOMAIN scored_ids |->
              Payload("TOKEN", calls[b.calls[i]].stream_id, b.calls[i], "token",
                      scored_ids[j],
                      IF j = Len(scored_ids) THEN "stop" ELSE "none", j)]])

\* c.error(msg) for every call of the batch
errors(cs, msg) == [i \in DOMAIN cs |-> error(cs[i], msg)]

\* process_batch, except InterruptedError
on_interrupted(cs) == errors(cs, CancelledMsg)

\* a handler that reports to the first call only
on_exceptionFirstCall(cs) == << error(cs[1], FailedMsg) >>

\* process_batch, except Exception as e
on_exception(cs) == errors(cs, FailedMsg)

\* put every payload of ps, in order, on the queue of the session its call
\* belongs to
RECURSIVE put_all(_, _)
put_all(queues, ps) ==
    IF ps = << >> THEN queues
    ELSE put_all([queues EXCEPT ![calls[Head(ps).call].result_queue] =
                      Append(@, Head(ps))],
                 Tail(ps))


(***************************************************************************)
(* TokenSession.                                                           *)
(*   active_stream   stream id -> call (0: no entry); a WeakValueDictionary*)
(*   state           open; closed (close() has run and cancelled the       *)
(*                   output loop, whose CancelledError handler has not run *)
(*                   yet); done                                            *)
(*   pending         << >>, or <<msg_id, target>> while handle is between  *)
(*                   the membership test and the pop of a CANCEL           *)
(***************************************************************************)
TokenSession(model_args, static, longrunning) ==
    [ model_args |-> model_args, static |-> static,
      longrunning |-> longrunning, used_models |-> {},
      active_stream |-> [id \in StreamIds |-> 0],
      state |-> "open", pending |-> << >> ]

\* what `last` records of an operation
Op(op, session, model, stream_id, ret, raised, n) ==
    [ op |-> op, session |-> session, model |-> model,
      stream_id |-> stream_id, ret |-> ret, raised |-> raised, n |-> n ]

Step == Op("step", 0, "", 0, 0, FALSE, 0)

\* dealloc joins the worker thread: the thread that runs the sessions is
\* blocked until every killed worker has exited
Joined ==
    \A i \in DOMAIN schedulers :
        schedulers[i].kill_event => schedulers[i].wpc = "exited"

\* the sessions share one event loop thread: it takes up a command, an
\* output loop or a gc only when it is not inside dealloc's join and not
\* in the middle of a handle
Free == Joined /\ \A s \in Sessions : sessions[s].pending = << >>


Prompts == {<< 7 >>}
Scoreds == {Repeat(8, n) : n \in 0..MaxScored}

\* put one MSG payload on the session's own output_stream
PutMsg(s, p) ==
    /\ output_stream' = [output_stream EXCEPT ![s] = Append(@, p)]
    /\ enqueued' = [enqueued EXCEPT ![s] = Append(@, p)]

(***************************************************************************)
(* TokenSession.handle, cmd = GENERATE and cmd = SCORE: the call that      *)
(* both construct and submit                                               *)
(***************************************************************************)
Submit(s, cmd, model, prompt, kwargs) ==
    LET stream_id == ncmds + 1
        r == instance(Registry, model, sessions[s].model_args, s,
                      sessions[s].static)
        c == Len(calls) + 1
    IN /\ sessions[s].state = "open"
       /\ Free
       /\ Len(r.reg.sch) <= MaxSched
       /\ ncmds' = ncmds + 1
       /\ last' = Op(cmd, s, model, stream_id, r.ret, r.raised, 0)
       /\ IF r.raised
          THEN /\ sessions' = [sessions EXCEPT ![s].used_models = @ \cup {model}]
               /\ PutMsg(s, Msg(stream_id, NotLoadedMsg))
               /\ UNCHANGED << instances, schedulers, calls >>
          ELSE /\ calls' = Append(calls,
                                  GenerateCall(prompt, kwargs, stream_id, s))
               /\ sessions' = [sessions EXCEPT
                                 ![s].used_models = @ \cup {model},
                                 ![s].active_stream[stream_id] = c]
               /\ instances' = r.reg.inst
               /\ schedulers' = [r.reg.sch EXCEPT ![r.ret].queue = Append(@, c)]
               /\ UNCHANGED << output_stream, enqueued >>
       /\ UNCHANGED << transport, cancellable >>

HandleGenerate(s, model, max_tokens, temperature) ==
    \E prompt \in Prompts :
        Submit(s, "GENERATE", model, prompt,
               [max_tokens |-> max_tokens, temperature |-> temperature])

HandleScore(s, model, scored) ==
    \E prompt \in Prompts :
        Submit(s, "SCORE", model, prompt \o scored,
               [score |-> TRUE, scoring_offset |-> Len(prompt)])

\* TokenSession.handle, cmd = MODEL_INFO
HandleModelInfo(s, model) ==
    LET stream_id == ncmds + 1
        r == instance(Registry, model, sessions[s].model_args, s,
                      sessions[s].static)
    IN /\ sessions[s].state = "open"
       /\ Free
       /\ Len(r.reg.sch) <= MaxSched
       /\ ncmds' = ncmds + 1
       /\ last' = Op("MODEL_INFO", s, model, stream_id, r.ret, r.raised, 0)
       /\ IF r.raised
          THEN /\ PutMsg(s, Msg(stream_id, NotLoadedMsg))
               /\ UNCHANGED << instances, schedulers >>
          ELSE /\ PutMsg(s, Msg(stream_id, "model_info"))
               /\ instances' = r.reg.inst
               /\ schedulers' = r.reg.sch
       /\ UNCHANGED << calls, sessions, transport, cancellable >>

\* a call is in flight while it waits on a queue or in a batch of a drain
InFlight(c) ==
    \E i \in DOMAIN schedulers :
        \/ \E j \in DOMAIN schedulers[i].queue : schedulers[i].queue[j] = c
        \/ \E j \in DOMAIN schedulers[i].todo :
              \E r \in DOMAIN schedulers[i].todo[j] :
                  schedulers[i].todo[j][r] = c

\* the acknowledgement of a CANCEL that found its target; as bookkeeping it
\* names the call cancelled and whether that call was in flight (step 1)
CancelRequested(msg_id, c) ==
    Payload("MSG", msg_id, c, "cancel requested", 0, "none",
            IF InFlight(c) THEN 1 ELSE 0)

\* the reply to a CANCEL that found no entry; token holds the id that the
\* text of the message ends with
NoActiveStream(msg_id, target) ==
    Payload("MSG", msg_id, 0, "no active stream with id", target, "none", 0)

\* TokenSession.handle, cmd = CANCEL: msg_id acknowledges, target is
\* kwargs.data.stream_id.  `stream_id in self.active_stream.keys()`: with no
\* entry the reply is put at once; with an entry the pop follows (CancelPop),
\* and the worker thread runs in between.
HandleCancel(s, target) ==
    LET msg_id == ncmds + 1 IN
    /\ sessions[s].state = "open"
    /\ Free
    /\ ncmds' = ncmds + 1
    /\ IF sessions[s].active_stream[target] # 0
       THEN /\ sessions' = [sessions EXCEPT ![s].pending = << msg_id, target >>]
            /\ last' = Step
            /\ UNCHANGED << output_stream, enqueued >>
       ELSE /\ PutMsg(s, NoActiveStream(msg_id, target))
            /\ last' = Op("CANCEL", s, "", target, msg_id, FALSE, 0)
            /\ UNCHANGED sessions
    /\ UNCHANGED << instances, schedulers, calls, transport, cancellable >>

\* call = self.active_stream.pop(stream_id); call.cancel(); the reply.  If
\* the worker has dropped the last reference to the call since the test, the
\* entry is gone and pop raises KeyError, which the generic handler reports
\* on stream_id, by now the target's id.
CancelPop(s) ==
    LET msg_id == sessions[s].pending[1]
        target == sessions[s].pending[2]
        c == sessions[s].active_stream[target]
    IN /\ sessions[s].pending # << >>
       /\ last' = Op("CANCEL", s, "", target, msg_id, c = 0, 0)
       /\ IF c # 0
          THEN /\ calls' = [calls EXCEPT ![c].cancelled = TRUE]
               /\ sessions' = [sessions EXCEPT ![s].active_stream[target] = 0,
                                               ![s].pending = << >>]
               /\ PutMsg(s, CancelRequested(msg_id, c))
          ELSE /\ sessions' = [sessions EXCEPT ![s].pending = << >>]
               /\ PutMsg(s, Msg(target, "KeyError"))
               /\ UNCHANGED calls
       /\ UNCHANGED << instances, schedulers, transport, cancellable, ncmds >>

\* TokenSession.handle, any other cmd
HandleUnknown(s) ==
    LET stream_id == ncmds + 1 IN
    /\ sessions[s].state = "open"
    /\ Free
    /\ ncmds' = ncmds + 1
    /\ last' = Op("UNKNOWN", s, "", stream_id, 0, FALSE, 0)
    /\ PutMsg(s, Msg(stream_id, "Unknown command"))
    /\ UNCHANGED << instances, schedulers, calls, sessions, transport,
                    cancellable >>

\* the fields handle takes out of kwargs for a command, in the order in
\* which it takes them: model first, before the try
Commands == {"GENERATE", "SCORE", "MODEL_INFO", "CANCEL", "PING"}

fields(cmd) ==
    << "model" >> \o
    (CASE cmd = "GENERATE" -> << "prompt", "stream_id" >>
       [] cmd = "SCORE" -> << "prompt", "scored", "stream_id" >>
       [] cmd = "CANCEL" -> << "stream_id" >>
       [] OTHER -> << >>)

\* TokenSession.handle of a command that lacks `field`, one that handle
\* takes with kwargs.pop(field): the pop raises KeyError.  Inside the try
\* the generic handler reports it on stream_id = kwargs.get("stream_id"),
\* None when that is the missing field; kwargs.pop("model") is outside the
\* try and its KeyError leaves handle.
HandleMissing(s, cmd, field) ==
    LET stream_id == IF field = "stream_id" THEN None ELSE ncmds + 1
        escapes == field = "model"
    IN /\ sessions[s].state = "open"
       /\ Free
       /\ \E j \in DOMAIN fields(cmd) : fields(cmd)[j] = field
       /\ ncmds' = ncmds + 1
       /\ last' = Op("MISSING", s, field, stream_id, 0, escapes, 0)
       /\ IF escapes
          THEN UNCHANGED << output_stream, enqueued >>
          ELSE PutMsg(s, Msg(stream_id, "KeyError"))
       /\ UNCHANGED << instances, schedulers, calls, sessions, transport,
                       cancellable >>

\* Scheduler.gc(n), called by hand
Gc(n) ==
    /\ Free
    /\ ncmds' = ncmds + 1
    /\ last' = Op("gc", 0, "", 0, 0, FALSE, n)
    /\ instances' = gc(Registry, n).inst
    /\ schedulers' = gc(Registry, n).sch
    /\ UNCHANGED << calls, sessions, output_stream, transport, enqueued,
                    cancellable >>


(***************************************************************************)
(* TokenSession.close.  The loop over used_models (a set: its iteration    *)
(* order is any order) is close_models over the sequence `order`.          *)
(***************************************************************************)
Orders(S) ==
    {f \in [1..Cardinality(S) -> S] : \A i, j \in DOMAIN f : f[i] = f[j] => i = j}

\* a close that always runs the lenient gc()
close_gcLenient(R, longrunning) == gc(R, DefaultMinLoaded)

\* if self.longrunning: scheduler.gc() else: Scheduler.gc(0)
close_gc(R, longrunning) ==
    IF longrunning THEN gc(R, DefaultMinLoaded) ELSE gc(R, AggressiveMinLoaded)

\* a close that does not unregister
close_unregisterSkipped(R, s, user) == R

\* scheduler.unregister(self)
close_unregister(R, s, user) == unregister(R, s, user)

RECURSIVE close_models(_, _, _)
close_models(R, order, s) ==
    IF order = << >> THEN R
    ELSE LET r == instance(R, Head(order), sessions[s].model_args, None,
                           sessions[s].static)
         IN IF r.raised
            THEN close_models(R, Tail(order), s)
            ELSE close_models(
                     close_gc(close_unregister(r.reg, r.ret, s),
                              sessions[s].longrunning),
                     Tail(order), s)

\* for call in self.active_stream.values(): call.cancel()
cancel_active(s) ==
    [c \in DOMAIN calls |->
        IF \E id \in StreamIds : sessions[s].active_stream[id] = c
        THEN [calls[c] EXCEPT !.cancelled = TRUE]
        ELSE calls[c]]

close(s, order) ==
    LET R == close_models(Registry, order, s)
    IN /\ Len(R.sch) <= MaxSched
       /\ calls' = cancel_active(s)
       /\ instances' = R.inst
       /\ schedulers' = R.sch

\* close() called on a session whose output loop is running: the loop's
\* task is cancelled and handles CancelledError later (CloseAgain)
Close(s) ==
    /\ sessions[s].state = "open"
    /\ Free
    /\ \E order \in Orders(sessions[s].used_models) : close(s, order)
    /\ sessions' = [sessions EXCEPT ![s].state = "closed"]
    /\ last' = Op("close", s, "", 0, 0, FALSE, 0)
    /\ UNCHANGED << output_stream, transport, enqueued, cancellable, ncmds >>

(***************************************************************************)
(* TokenSession.queue_loop.                                                *)
(***************************************************************************)
\* a get that takes the newest entry
queue_getLast(q) == << q[Len(q)] >>

\* msg_type, token = self.output_stream.get_nowait()
queue_get(q) == << Head(q) >>

queue_rest(q) == Tail(q)

\* one turn of the loop: a payload is taken and transport.send delivers it
QueueForward(s) ==
    /\ sessions[s].state = "open"
    /\ Free
    /\ output_stream[s] # << >>
    /\ transport' = [transport EXCEPT ![s] = @ \o queue_get(output_stream[s])]
    /\ output_stream' = [output_stream EXCEPT ![s] = queue_rest(@)]
    /\ last' = Step
    /\ UNCHANGED << instances, schedulers, calls, sessions, enqueued,
                    cancellable, ncmds >>

\* a payload is taken and transport.send raises: except Exception:
\* self.close().  The task cancels itself and ends; the payload is lost.
TransportFail(s) ==
    /\ sessions[s].state = "open"
    /\ Free
    /\ output_stream[s] # << >>
    /\ \E order \in Orders(sessions[s].used_models) : close(s, order)
    /\ output_stream' = [output_stream EXCEPT ![s] = queue_rest(@)]
    /\ sessions' = [sessions EXCEPT ![s].state = "done"]
    /\ last' = Op("close", s, "", 0, 0, FALSE, 1)
    /\ UNCHANGED << transport, enqueued, cancellable, ncmds >>

\* except asyncio.CancelledError: self.close(), the second run of close
CloseAgain(s) ==
    /\ sessions[s].state = "closed"
    /\ Free
    /\ \E order \in Orders(sessions[s].used_models) : close(s, order)
    /\ sessions' = [sessions EXCEPT ![s].state = "done"]
    /\ last' = Op("close", s, "", 0, 0, FALSE, 2)
    /\ UNCHANGED << output_stream, transport, enqueued, cancellable, ncmds >>


(***************************************************************************)
(* The worker of scheduler i: Scheduler.async_worker and process_batch.    *)
(***************************************************************************)
\* the worker entering the next batch of todo; with none left process_batch
\* returns and the worker is back at the head of its loop
enter(w, todo) ==
    IF todo = << >>
    THEN [w EXCEPT !.wpc = "idle", !.todo = << >>, !.held = {},
                   !.k = 0, !.toks = << >>, !.scores = << >>, !.fin = {}]
    ELSE [w EXCEPT !.wpc = IF from_calls(Head(todo)).is_score
                           THEN "score" ELSE "gen",
                   !.todo = todo, !.k = 0, !.toks = << >>, !.scores = << >>,
                   !.fin = {}]

\* the calls of a finished drain are no longer referenced: their entries
\* leave every active_stream
prune(held) ==
    [s \in Sessions |->
        [sessions[s] EXCEPT !.active_stream =
            [id \in StreamIds |-> IF @[id] \in held THEN 0 ELSE @[id]]]]

\* the batch at the head of todo ends having put the payloads ps
EndBatch(i, ps) ==
    LET w == schedulers[i]
        rest == Tail(w.todo)
    IN /\ schedulers' = [schedulers EXCEPT ![i] = enter(w, rest)]
       /\ output_stream' = put_all(output_stream, ps)
       /\ enqueued' = put_all(enqueued, ps)
       /\ sessions' = IF rest = << >> THEN prune(w.held) ELSE sessions

\* model = LMTPModel.load(...); self._model_info = model.model_info()
WorkerLoad(i) ==
    /\ schedulers[i].wpc = "load"
    /\ schedulers' = [schedulers EXCEPT ![i].wpc = "idle"]
    /\ last' = Step
    /\ UNCHANGED << instances, calls, sessions, output_stream, transport,
                    enqueued, cancellable, ncmds >>

\* if self.kill_event.is_set(): break.  The thread ends, dealloc's join
\* returns and nothing references the scheduler any more: its queue and the
\* calls left on it are freed.
WorkerExit(i) ==
    LET w == schedulers[i]
    IN /\ w.wpc = "idle"
       /\ w.kill_event
       /\ schedulers' = [schedulers EXCEPT ![i].wpc = "exited",
                                            ![i].queue = << >>]
       /\ sessions' = prune({w.queue[j] : j \in DOMAIN w.queue})
       /\ last' = Step
       /\ UNCHANGED << instances, calls, output_stream, transport,
                       enqueued, cancellable, ncmds >>

\* process_batch: self.batches(model.max_batch_size) takes the first n calls
\* of the queue (all of them unless its 0.1 s window ends first) and the
\* first batch starts
WorkerDrain(i, n) ==
    LET w == schedulers[i]
        taken == SubSeq(w.queue, 1, n)
    IN /\ w.wpc = "idle"
       /\ ~ w.kill_event
       /\ n \in 1..Len(w.queue)
       /\ schedulers' = [schedulers EXCEPT ![i] =
              enter([w EXCEPT !.queue = SubSeq(w.queue, n + 1, Len(w.queue)),
                              !.held = {taken[j] : j \in DOMAIN taken}],
                    batches(taken, MaxBatchSize))]
       /\ last' = Step
       /\ UNCHANGED << instances, calls, sessions, output_stream, transport,
                       enqueued, cancellable, ncmds >>

\* The backend (LMTPModel.generate): it invokes the streamer once per
\* generated token, and returns once max_new_tokens tokens are generated or
\* every row has produced EOS.
generate_continues(w, cs) ==
    w.k < from_calls(cs).max_tokens /\ w.fin # DOMAIN cs

generate_returns(w, cs) ==
    w.k >= 1 /\ (w.k = from_calls(cs).max_tokens \/ w.fin = DOMAIN cs)

\* the backend generates one more token per row and invokes the streamer
\* with the tokens and their scores: TokenStreamer.__call__
StreamerCall(i, toks, scores) ==
    LET w == schedulers[i]
        cs == Head(w.todo)
    IN /\ w.wpc = "gen"
       /\ generate_continues(w, cs)
       /\ toks \in [DOMAIN cs -> Tokens]
       /\ scores \in [DOMAIN cs -> Scores]
       /\ IF interrupted(cs)
          THEN EndBatch(i, on_interrupted(cs))
          ELSE /\ schedulers' = [schedulers EXCEPT
                     ![i].k = @ + 1,
                     ![i].toks = toks,
                     ![i].scores = scores,
                     ![i].fin = @ \cup {r \in DOMAIN cs : toks[r] = EOS}]
               /\ output_stream' =
                     put_all(output_stream,
                             log_token(cs, toks, scores, FALSE, w.k + 1))
               /\ enqueued' =
                     put_all(enqueued,
                             log_token(cs, toks, scores, FALSE, w.k + 1))
               /\ UNCHANGED sessions
       /\ last' = Op("log_token", 0, "", 0, i, FALSE, 0)
       /\ UNCHANGED << instances, calls, transport, cancellable, ncmds >>

\* a streamer invocation of a backend whose scores put the token Tok first
\* in every row
BackendStep(i, toks) ==
    StreamerCall(i, toks, [r \in DOMAIN toks |-> TokFirst])

\* model.generate returns;
\* streamer.log_token(result.sequences, result.scores, last=True)
BackendReturn(i) ==
    LET w == schedulers[i]
        cs == Head(w.todo)
    IN /\ w.wpc = "gen"
       /\ generate_returns(w, cs)
       /\ IF interrupted(cs)
          THEN EndBatch(i, on_interrupted(cs))
          ELSE EndBatch(i, log_token(cs, w.toks, w.scores, TRUE, w.k + 1))
       /\ last' = Op("log_token", 0, "", 0, i, FALSE, 1)
       /\ UNCHANGED << instances, calls, transport, cancellable, ncmds >>

\* scores = model.score(...); ScoreStreamer().log_token(b, scores)
BackendScore(i) ==
    LET w == schedulers[i]
    IN /\ w.wpc = "score"
       /\ EndBatch(i, score_log_token(from_calls(Head(w.todo))))
       /\ last' = Op("score", 0, "", 0, i, FALSE, 0)
       /\ UNCHANGED << instances, calls, transport, cancellable, ncmds >>

\* model.generate or model.score raises: except Exception as e
BackendFail(i) ==
    LET w == schedulers[i]
    IN /\ w.wpc \in {"gen", "score"}
       /\ EndBatch(i, on_exception(Head(w.todo)))
       /\ last' = Op("fail", 0, "", 0, i, FALSE, 0)
       /\ UNCHANGED << instances, calls, transport, cancellable, ncmds >>

(***************************************************************************)
(* The specifications.  The steps of the program itself (workers, output   *)
(* loops) are the same in all of them; they differ in what the clients     *)
(* send.                                                                   *)
(***************************************************************************)
InitWith(configs, cancellables) ==
    /\ instances = [id \in Keys |-> 0]
    /\ schedulers = << >>
    /\ calls = << >>
    /\ sessions \in configs
    /\ output_stream = [s \in Sessions |-> << >>]
    /\ transport = [s \in Sessions |-> << >>]
    /\ enqueued = [s \in Sessions |-> << >>]
    /\ cancellable \in cancellables
    /\ ncmds = 0
    /\ last = Step

Internal ==
    \/ \E s \in Sessions : QueueForward(s)
    \/ \E s \in Sessions : TransportFail(s)
    \/ \E s \in Sessions : CloseAgain(s)
    \/ \E i \in DOMAIN schedulers : WorkerLoad(i)
    \/ \E i \in DOMAIN schedulers : WorkerExit(i)
    \/ \E i \in DOMAIN schedulers, n \in 1..MaxCmds : WorkerDrain(i, n)
    \/ \E i \in DOMAIN schedulers,
          toks \in UNION {[1..n -> Tokens] : n \in 1..MaxBatchSize} :
          BackendStep(i, toks)
    \/ \E i \in DOMAIN schedulers : BackendReturn(i)
    \/ \E i \in DOMAIN schedulers : BackendScore(i)
    \/ \E i \in DOMAIN schedulers : BackendFail(i)

\* one client of one model that generates, scores, cancels and disconnects
Init == InitWith({[s \in Sessions |-> TokenSession(ArgsA, FALSE, FALSE)]},
                 BOOLEAN)

Next ==
    \/ \E n \in 1..MaxTok, t \in Temperatures :
          ncmds < MaxCmds /\ HandleGenerate(1, "m1", n, t)
    \/ \E sc \in Scoreds : ncmds < MaxCmds /\ HandleScore(1, "m1", sc)
    \/ \E id \in StreamIds : ncmds < MaxCmds /\ HandleCancel(1, id)
    \/ CancelPop(1)
    \/ Close(1)
    \/ Internal

Spec == Init /\ [][Next]_vars

\* two clients of two models that generate, score, ask for model info and
\* disconnect, and gc called by hand; the transport and the backend do not
\* fail, the backend emits no EOS and every drain empties the queue
InitRegistry ==
    InitWith({f \in [Sessions -> {TokenSession(a, st, lr) :
                         a \in ArgDicts, st \in BOOLEAN, lr \in BOOLEAN}] :
                 /\ f[1].model_args = ArgsA /\ ~ f[1].static
                 /\ ~ f[2].longrunning},
             {TRUE})

NextRegistry ==
    \/ \E s \in Sessions, m \in Models, t \in Temperatures :
          ncmds < MaxRegistryCmds /\ HandleGenerate(s, m, 1, t)
    \/ \E s \in Sessions, m \in Models :
          ncmds < MaxRegistryCmds /\ HandleScore(s, m, Repeat(8, MaxScored))
    \/ \E s \in Sessions, m \in Models :
          ncmds < MaxRegistryCmds /\ HandleModelInfo(s, m)
    \/ \E n \in 0..MaxSched : ncmds < MaxRegistryCmds /\ Gc(n)
    \/ \E s \in Sessions : Close(s)
    \/ \E s \in Sessions : QueueForward(s)
    \/ \E s \in Sessions : CloseAgain(s)
    \/ \E i \in DOMAIN schedulers : WorkerLoad(i)
    \/ \E i \in DOMAIN schedulers : WorkerExit(i)
    \/ \E i \in DOMAIN schedulers : WorkerDrain(i, Len(schedulers[i].queue))
    \/ \E i \in DOMAIN schedulers,
          toks \in UNION {[1..n -> {Tok}] : n \in 1..MaxBatchSize} :
          BackendStep(i, toks)
    \/ \E i \in DOMAIN schedulers : BackendReturn(i)
    \/ \E i \in DOMAIN schedulers : BackendScore(i)

SpecRegistry == InitRegistry /\ [][NextRegistry]_vars

(***************************************************************************)
(* Scheduler.instance and Scheduler.gc called by the sessions from threads *)
(* of their own, one statement at a time.  The frame of a thread's call is *)
(* kept in its session's `pending`:                                        *)
(*   << pc, id, n, total, ks, x, ret >>                                    *)
(* pc the statement to run next, id the identifier of instance, n and      *)
(* total of gc, ks what is left of not_needed, x the scheduler being       *)
(* deallocated, ret the scheduler instance returns (0 in a gc by hand).    *)
(***************************************************************************)
Frame(pc, id, n, total, ks, x, ret) == << pc, id, n, total, ks, x, ret >>

At(t, pc) == sessions[t].pending # << >> /\ sessions[t].pending[1] = pc

\* the thread goes to its next statement, leaving everything else alone
Goto(t, frame) ==
    /\ sessions' = [sessions EXCEPT ![t].pending = frame]
    /\ last' = Step

\* the call returns, or ends in the KeyError it raised
Return(t, raised) ==
    LET f == sessions[t].pending
    IN /\ sessions' = [sessions EXCEPT ![t].pending = << >>]
       /\ last' = Op(IF f[2] # << >> THEN "instance" ELSE "gc",
                     t, "", 0, f[7], raised, f[3])

\* for k in not_needed, after `if total >= n`: the next k, or the return
gc_loop(t, f, ks) ==
    IF f[4] >= f[3] /\ ks # << >>
    THEN Goto(t, Frame("gc.get", f[2], f[3], f[4], ks, 0, f[7]))
    ELSE Return(t, FALSE)

\* the identifiers in ks in the order of the dict, which is the order in
\* which their schedulers were constructed
RECURSIVE in_order(_, _)
in_order(R, ks) ==
    IF ks = {} THEN << >>
    ELSE LET k == CHOOSE k \in ks : \A j \in ks : R.inst[k] <= R.inst[j]
         IN << k >> \o in_order(R, ks \ {k})

\* a thread calls Scheduler.instance(model, self.model_args, user=self)
CallInstance(t, model) ==
    /\ sessions[t].state = "open"
    /\ sessions[t].pending = << >>
    /\ ncmds' = ncmds + 1
    /\ Goto(t, Frame("instance.test",
                     identifier(model, sessions[t].model_args),
                     DefaultMinLoaded, 0, << >>, 0, 0))
    /\ UNCHANGED << instances, schedulers, calls, output_stream, transport,
                    enqueued, cancellable >>

\* a thread calls Scheduler.gc(n)
CallGc(t, n) ==
    /\ sessions[t].state = "open"
    /\ sessions[t].pending = << >>
    /\ ncmds' = ncmds + 1
    /\ Goto(t, Frame("gc.total", << >>, n, 0, << >>, 0, 0))
    /\ UNCHANGED << instances, schedulers, calls, output_stream, transport,
                    enqueued, cancellable >>

\* if identifier not in Scheduler._instances:
instance_test(t) ==
    LET f == sessions[t].pending
    IN /\ At(t, "instance.test")
       /\ Goto(t, [f EXCEPT ![1] = IF instances[f[2]] = 0
                                   THEN "instance.new" ELSE "instance.get"])
       /\ UNCHANGED << instances, schedulers, calls, output_stream, transport,
                       enqueued, cancellable, ncmds >>

\* Scheduler._instances[identifier] = Scheduler(model_identifier, model_args)
instance_new(t) ==
    LET f == sessions[t].pending
    IN /\ At(t, "instance.new")
       /\ Len(schedulers) < MaxSched
       /\ schedulers' = Append(schedulers, Scheduler(f[2][1], sessions[t].model_args))
       /\ instances' = [instances EXCEPT ![f[2]] = Len(schedulers) + 1]
       /\ Goto(t, [f EXCEPT ![1] = "instance.get"])
       /\ UNCHANGED << calls, output_stream, transport, enqueued, cancellable,
                       ncmds >>

\* s = Scheduler._instances[identifier]
instance_get(t) ==
    LET f == sessions[t].pending
    IN /\ At(t, "instance.get")
       /\ IF instances[f[2]] = 0
          THEN Return(t, TRUE)
          ELSE Goto(t, [f EXCEPT ![1] = "instance.add", ![7] = instances[f[2]]])
       /\ UNCHANGED << instances, schedulers, calls, output_stream, transport,
                       enqueued, cancellable, ncmds >>

\* s.users.add(user); then Scheduler.gc()
instance_add(t) ==
    LET f == sessions[t].pending
    IN /\ At(t, "instance.add")
       /\ schedulers' = [schedulers EXCEPT ![f[7]].users = @ \cup {t}]
       /\ Goto(t, [f EXCEPT ![1] = "gc.total"])
       /\ UNCHANGED << instances, calls, output_stream, transport, enqueued,
                       cancellable, ncmds >>

\* total = len(Scheduler._instances)
gc_total(t) ==
    LET f == sessions[t].pending
    IN /\ At(t, "gc.total")
       /\ Goto(t, [f EXCEPT ![1] = "gc.not_needed",
                            ![4] = Cardinality(Loaded(Registry))])
       /\ UNCHANGED << instances, schedulers, calls, output_stream, transport,
                       enqueued, cancellable, ncmds >>

\* not_needed = [k for k, v in ... if len(v.users) == 0]; if total >= n:
gc_not_needed(t) ==
    LET f == sessions[t].pending
        not_needed == {id \in Loaded(Registry) :
                          schedulers[instances[id]].users = {}}
    IN /\ At(t, "gc.not_needed")
       /\ gc_loop(t, f, in_order(Registry, not_needed))
       /\ UNCHANGED << instances, schedulers, calls, output_stream, transport,
                       enqueued, cancellable, ncmds >>

\* s = Scheduler._instances[k]
gc_get(t) ==
    LET f == sessions[t].pending
    IN /\ At(t, "gc.get")
       /\ IF instances[Head(f[5])] = 0
          THEN Return(t, TRUE)
          ELSE Goto(t, [f EXCEPT ![1] = "gc.dealloc"])
       /\ UNCHANGED << instances, schedulers, calls, output_stream, transport,
                       enqueued, cancellable, ncmds >>

\* Scheduler._instances[k].dealloc(): the subscript, and dealloc entered
gc_dealloc(t) ==
    LET f == sessions[t].pending
    IN /\ At(t, "gc.dealloc")
       /\ IF instances[Head(f[5])] = 0
          THEN Return(t, TRUE)
          ELSE Goto(t, [f EXCEPT ![1] = "dealloc.pop",
                                 ![6] = instances[Head(f[5])]])
       /\ UNCHANGED << instances, schedulers, calls, output_stream, transport,
                       enqueued, cancellable, ncmds >>

\* Scheduler._instances.pop(identifier), identifier that of self
dealloc_pop(t) ==
    LET f == sessions[t].pending
        id == identifier(schedulers[f[6]].model_identifier,
                         schedulers[f[6]].model_args)
    IN /\ At(t, "dealloc.pop")
       /\ IF instances[id] = 0
          THEN Return(t, TRUE) /\ UNCHANGED instances
          ELSE /\ instances' = [instances EXCEPT ![id] = 0]
               /\ Goto(t, [f EXCEPT ![1] = "dealloc.kill"])
       /\ UNCHANGED << schedulers, calls, output_stream, transport, enqueued,
                       cancellable, ncmds >>

\* self.kill_event.set()
dealloc_kill(t) ==
    LET f == sessions[t].pending
    IN /\ At(t, "dealloc.kill")
       /\ schedulers' = [schedulers EXCEPT ![f[6]].kill_event = TRUE]
       /\ sessions' = [sessions EXCEPT ![t].pending = [f EXCEPT ![1] = "dealloc.join"]]
       /\ last' = Op("dealloc", t, "", 0, f[6], schedulers[f[6]].kill_event, 0)
       /\ UNCHANGED << instances, calls, output_stream, transport, enqueued,
                       cancellable, ncmds >>

\* self.worker_thread.join(), and gc's loop goes on
dealloc_join(t) ==
    LET f == sessions[t].pending
    IN /\ At(t, "dealloc.join")
       /\ schedulers[f[6]].wpc = "exited"
       /\ gc_loop(t, f, Tail(f[5]))
       /\ UNCHANGED << instances, schedulers, calls, output_stream, transport,
                       enqueued, cancellable, ncmds >>

\* two sessions that call instance and gc from two threads
InitThreads == InitWith({[s \in Sessions |-> TokenSession(ArgsA, FALSE, FALSE)]},
                        {TRUE})

NextThreads ==
    \/ \E t \in Sessions, model \in Models :
          ncmds < MaxThreadCalls /\ CallInstance(t, model)
    \/ \E t \in Sessions, n \in {AggressiveMinLoaded, DefaultMinLoaded} :
          ncmds < MaxThreadCalls /\ CallGc(t, n)
    \/ \E t \in Sessions : instance_test(t)
    \/ \E t \in Sessions : instance_new(t)
    \/ \E t \in Sessions : instance_get(t)
    \/ \E t \in Sessions : instance_add(t)
    \/ \E t \in Sessions : gc_total(t)
    \/ \E t \in Sessions : gc_not_needed(t)
    \/ \E t \in Sessions : gc_get(t)
    \/ \E t \in Sessions : gc_dealloc(t)
    \/ \E t \in Sessions : dealloc_pop(t)
    \/ \E t \in Sessions : dealloc_kill(t)
    \/ \E t \in Sessions : dealloc_join(t)
    \/ \E i \in DOMAIN schedulers : WorkerLoad(i)
    \/ \E i \in DOMAIN schedulers : WorkerExit(i)

SpecThreads == InitThreads /\ [][NextThreads]_vars

\* one client that sends well-formed GENERATE commands, commands that lack
\* a field and commands that handle does not know
InitErrors == InitWith({[s \in Sessions |-> TokenSession(ArgsA, FALSE, FALSE)]},
                       {TRUE})

NextErrors ==
    \/ \E n \in 1..MaxTok, t \in Temperatures :
          ncmds < MaxCmds /\ HandleGenerate(1, "m1", n, t)
    \/ ncmds < MaxCmds /\ HandleUnknown(1)
    \/ \E cmd \in Commands, field \in {"model", "prompt", "scored", "stream_id"} :
          ncmds < MaxCmds /\ HandleMissing(1, cmd, field)
    \/ QueueForward(1)
    \/ \E i \in DOMAIN schedulers : WorkerLoad(i)
    \/ \E i \in DOMAIN schedulers, n \in 1..MaxCmds : WorkerDrain(i, n)
    \/ \E i \in DOMAIN schedulers,
          toks \in UNION {[1..n -> Tokens] : n \in 1..MaxBatchSize} :
          BackendStep(i, toks)
    \/ \E i \in DOMAIN schedulers : BackendReturn(i)

SpecErrors == InitErrors /\ [][NextErrors]_vars

\* one client that generates and cancels and stays connected, over a
\* transport and a backend that do not fail; the worker thread and the
\* output loop are scheduled fairly
InitCancel == InitWith({[s \in Sessions |-> TokenSession(ArgsA, FALSE, FALSE)]},
                       BOOLEAN)

NextCancel ==
    \/ \E n \in 1..MaxTok, t \in Temperatures :
          ncmds < MaxCmds /\ HandleGenerate(1, "m1", n, t)
    \/ \E id \in StreamIds : ncmds < MaxCmds /\ HandleCancel(1, id)
    \/ CancelPop(1)
    \/ QueueForward(1)
    \/ \E i \in DOMAIN schedulers : WorkerLoad(i)
    \/ \E i \in DOMAIN schedulers, n \in 1..MaxCmds : WorkerDrain(i, n)
    \/ \E i \in DOMAIN schedulers,
          toks \in UNION {[1..n -> Tokens] : n \in 1..MaxBatchSize} :
          BackendStep(i, toks)
    \/ \E i \in DOMAIN schedulers : BackendReturn(i)

SpecCancel ==
    /\ InitCancel
    /\ [][NextCancel]_vars
    /\ WF_vars(QueueForward(1))
    /\ WF_vars(CancelPop(1))
    /\ WF_vars(\E i \in DOMAIN schedulers : WorkerLoad(i))
    /\ WF_vars(\E i \in DOMAIN schedulers, n \in 1..MaxCmds : WorkerDrain(i, n))
    /\ WF_vars(\E i \in DOMAIN schedulers,
                  toks \in UNION {[1..n -> Tokens] : n \in 1..MaxBatchSize} :
                  BackendStep(i, toks))
    /\ WF_vars(\E i \in DOMAIN schedulers : BackendReturn(i))

\* one client of one model whose GENERATE and SCORE commands differ in
\* prompt length, temperature and top_logprobs, over a transport and a
\* backend that do not fail
LongPrompts == {<< 1, 2 >>, << 1, 2, 3 >>}

GenerateKwargs ==
    { [max_tokens |-> 1, temperature |-> 0, top_logprobs |-> 1],
      [max_tokens |-> 1, temperature |-> 0, top_logprobs |-> 2],
      [max_tokens |-> 1, temperature |-> 1, top_logprobs |-> 1] }

InitBatch == InitWith({[s \in Sessions |-> TokenSession(ArgsA, FALSE, FALSE)]},
                      {TRUE})

NextBatch ==
    \/ \E prompt \in LongPrompts, kwargs \in GenerateKwargs :
          ncmds < MaxCmds /\ Submit(1, "GENERATE", "m1", prompt, kwargs)
    \/ \E prompt \in LongPrompts :
          ncmds < MaxCmds /\ Submit(1, "SCORE", "m1", prompt \o << 8 >>,
                                    [score |-> TRUE,
                                     scoring_offset |-> Len(prompt)])
    \/ \E i \in DOMAIN schedulers : WorkerLoad(i)
    \/ \E i \in DOMAIN schedulers, n \in 1..MaxCmds : WorkerDrain(i, n)
    \/ \E i \in DOMAIN schedulers,
          toks \in UNION {[1..n -> Tokens] : n \in 1..MaxBatchSize},
          scores \in UNION {[1..n -> Scores] : n \in 1..MaxBatchSize} :
          StreamerCall(i, toks, scores)
    \/ \E i \in DOMAIN schedulers : BackendReturn(i)
    \/ \E i \in DOMAIN schedulers : BackendScore(i)

SpecBatch == InitBatch /\ [][NextBatch]_vars

\* one client that generates, scores, cancels and disconnects, over a
\* backend whose load, generate and score invocations return; the worker
\* threads are scheduled fairly
InitFair == InitWith({[s \in Sessions |-> TokenSession(ArgsA, FALSE, FALSE)]},
                     BOOLEAN)

NextFair ==
    \/ \E n \in 1..MaxTok, t \in Temperatures :
          ncmds < MaxCmds /\ HandleGenerate(1, "m1", n, t)
    \/ \E scored \in Scoreds :
          ncmds < MaxCmds /\ HandleScore(1, "m1", scored)
    \/ \E id \in StreamIds : ncmds < MaxCmds /\ HandleCancel(1, id)
    \/ CancelPop(1)
    \/ Close(1)
    \/ CloseAgain(1)
    \/ \E i \in DOMAIN schedulers : WorkerLoad(i)
    \/ \E i \in DOMAIN schedulers : WorkerExit(i)
    \/ \E i \in DOMAIN schedulers, n \in 1..MaxCmds : WorkerDrain(i, n)
    \/ \E i \in DOMAIN schedulers,
          toks \in UNION {[1..n -> Tokens] : n \in 1..MaxBatchSize} :
          BackendStep(i, toks)
    \/ \E i \in DOMAIN schedulers : BackendReturn(i)
    \/ \E i \in DOMAIN schedulers : BackendScore(i)

SpecFair ==
    /\ InitFair
    /\ [][NextFair]_vars
    /\ WF_vars(\E i \in DOMAIN schedulers : WorkerLoad(i))
    /\ WF_vars(\E i \in DOMAIN schedulers : WorkerExit(i))
    /\ WF_vars(\E i \in DOMAIN schedulers, n \in 1..MaxCmds : WorkerDrain(i, n))
    /\ WF_vars(\E i \in DOMAIN schedulers,
                  toks \in UNION {[1..n -> Tokens] : n \in 1..MaxBatchSize} :
                  BackendStep(i, toks))
    /\ WF_vars(\E i \in DOMAIN schedulers : BackendReturn(i))
    /\ WF_vars(\E i \in DOMAIN schedulers : BackendScore(i))

(***************************************************************************)
(* Properties.  A step is read off the bookkeeping record last' and the    *)
(* payloads it put on result queues off the history enqueued.              *)
(***************************************************************************)
\* the payloads put on the queue of session s by the step
Put(s) == SubSeq(enqueued'[s], Len(enqueued[s]) + 1, Len(enqueued'[s]))

\* the payloads the step put for call c
PutFor(c) == SelectSeq(Put(calls[c].result_queue), LAMBDA p : p.call = c)

\* the payloads put so far, and those sent so far, for call c
EnqueuedFor(c) == SelectSeq(enqueued[calls[c].result_queue],
                            LAMBDA p : p.call = c)
SentFor(c) == SelectSeq(transport[calls[c].result_queue],
                        LAMBDA p : p.call = c)

IsCancelled(p) == p.type = "TOKEN" /\ p.body = CancelledMsg
IsFailed(p) == p.type = "TOKEN" /\ p.body = FailedMsg
IsToken(p) == p.type = "TOKEN" /\ p.body = "token"

Has(seq, P(_)) == \E j \in DOMAIN seq : P(seq[j])

\* the step is an invocation of the streamer of scheduler i
Streamer(i) == last'.op = "log_token" /\ last'.ret = i

\* C1: a streamer invocation aborts the batch with lmtp.cancelled for every
\* call exactly when every call of the batch is cancelled and the backend
\* honours the streamer; any other invocation puts one token payload for
\* every row, cancelled rows included, and no other step puts lmtp.cancelled
C1_AbortIffAllCancelled ==
    [][/\ \A i \in DOMAIN schedulers :
            Streamer(i) =>
                LET cs == Head(schedulers[i].todo) IN
                IF batch_cancelled(cs) /\ cancellable
                THEN /\ \A r \in DOMAIN cs :
                            PutFor(cs[r]) = << error(cs[r], CancelledMsg) >>
                     /\ schedulers'[i].todo = Tail(schedulers[i].todo)
                ELSE \A r \in DOMAIN cs :
                         /\ Len(PutFor(cs[r])) = 1
                         /\ IsToken(PutFor(cs[r])[1])
       /\ last'.op # "log_token" =>
            \A s \in Sessions : ~ Has(Put(s), IsCancelled)
      ]_vars

\* a batch of two calls was aborted: each has its lmtp.cancelled payload
C1_Witness ==
    /\ last.op = "log_token"
    /\ \E c1, c2 \in DOMAIN calls :
          /\ c1 # c2
          /\ Has(EnqueuedFor(c1), IsCancelled)
          /\ Has(EnqueuedFor(c2), IsCancelled)
          /\ ~ InFlight(c1) /\ ~ InFlight(c2)

\* the client of call c has received "cancel requested" for a CANCEL that
\* found c in flight
AckSent(c) ==
    c \in DOMAIN calls /\
    \E j \in DOMAIN transport[calls[c].result_queue] :
        LET p == transport[calls[c].result_queue][j]
        IN p = [CancelRequested(p.stream_id, c) EXCEPT !.step = 1]

\* call c is in the batch that scheduler i is generating
Running(i, c) ==
    /\ schedulers[i].wpc = "gen"
    /\ \E r \in DOMAIN Head(schedulers[i].todo) : Head(schedulers[i].todo)[r] = c

Closes(s) == last'.op = "close" /\ last'.session = s

\* the key under which session s finds the scheduler of model m
KeyOf(s, m) == identifier(m, sessions[s].model_args)

\* C3: when close() returns, every call that was in the session's
\* active_stream when it started is cancelled, and no scheduler still loaded
\* for a model of its used_models has the session among its users
C3_CloseCancelsAndUnregisters ==
    [][\A s \in Sessions :
         Closes(s) =>
            /\ \A id \in StreamIds :
                  sessions[s].active_stream[id] # 0 =>
                      calls'[sessions[s].active_stream[id]].cancelled
            /\ \A m \in sessions[s].used_models :
                  instances'[KeyOf(s, m)] # 0 =>
                      s \notin schedulers'[instances'[KeyOf(s, m)]].users
      ]_vars

\* a session has closed with a call still active, now cancelled, and the
\* scheduler of its model remains loaded for the other session
C3_Witness ==
    /\ last.op = "close"
    /\ \E id \in StreamIds :
          /\ sessions[last.session].active_stream[id] # 0
          /\ calls[sessions[last.session].active_stream[id]].cancelled
    /\ \E m \in sessions[last.session].used_models :
          /\ instances[KeyOf(last.session, m)] # 0
          /\ schedulers[instances[KeyOf(last.session, m)]].users # {}

\* C4: close() of a session that is not longrunning deallocates every
\* scheduler of a model it used that has no other user: the key leaves the
\* registry and the worker is told to stop
C4_CloseEvictsUnshared ==
    [][\A s \in Sessions :
         (Closes(s) /\ ~ sessions[s].longrunning) =>
            \A m \in sessions[s].used_models :
               LET x == instances[KeyOf(s, m)]
               IN (x # 0 /\ schedulers[x].users \subseteq {s}) =>
                     /\ instances'[KeyOf(s, m)] = 0
                     /\ schedulers'[x].kill_event
      ]_vars

\* a session that loaded two models alone has closed and the registry is
\* empty, both workers told to stop
C4_Witness ==
    /\ last.op = "close"
    /\ last.n = 0
    /\ ~ sessions[last.session].longrunning
    /\ sessions[last.session].used_models = Models
    /\ Len(schedulers) = 2
    /\ \A i \in DOMAIN schedulers :
          schedulers[i].kill_event /\ schedulers[i].wpc # "exited"
    /\ Loaded(Registry) = {}

C6_SamePairSameScheduler ==
    [][\A x \in DOMAIN schedulers :
         (/\ last'.op \in {"GENERATE", "SCORE", "MODEL_INFO"}
          /\ ~ last'.raised
          /\ schedulers[x].model_identifier = last'.model
          /\ DictEq(schedulers[x].model_args,
                    sessions[last'.session].model_args)
          /\ ~ schedulers[x].kill_event)
         => last'.ret = x
      ]_vars

\* C7: a GENERATE, SCORE or MODEL_INFO of a static session for a model
\* without a scheduler under the session's key puts exactly the MSG "The
\* requested model is not loaded" on the command's stream id and leaves the
\* registry, every scheduler and the calls as they were
C7_StaticRefusal ==
    [][\A s \in Sessions :
         (/\ last'.op \in {"GENERATE", "SCORE", "MODEL_INFO"}
          /\ last'.session = s
          /\ sessions[s].static
          /\ instances[KeyOf(s, last'.model)] = 0)
         => /\ last'.raised
            /\ Put(s) = << Msg(last'.stream_id, NotLoadedMsg) >>
            /\ \A t \in Sessions \ {s} : Put(t) = << >>
            /\ instances' = instances
            /\ schedulers' = schedulers
            /\ calls' = calls
      ]_vars

\* a static session was refused a GENERATE while another scheduler is loaded
C7_Witness ==
    /\ last.op = "GENERATE"
    /\ last.raised
    /\ sessions[last.session].static
    /\ Loaded(Registry) # {}
    /\ output_stream[last.session][Len(output_stream[last.session])]
          = Msg(last.stream_id, NotLoadedMsg)

\* the calls that are not of the batch cs
Others(cs) == {c \in DOMAIN calls : \A r \in DOMAIN cs : cs[r] # c}

\* C8: when the backend fails on a batch, every call of the batch is put
\* exactly one payload, the error "failed to generate tokens", no other call
\* is put anything, and the worker goes on with the rest of the drain and
\* then the queue, both untouched; no other step puts that error, no call is
\* ever put it twice, and a worker exits only with its kill_event set
C8_FailureConfinedToBatch ==
    [][/\ \A i \in DOMAIN schedulers :
            (last'.op = "fail" /\ last'.ret = i) =>
                LET cs == Head(schedulers[i].todo) IN
                /\ \A r \in DOMAIN cs :
                      /\ PutFor(cs[r]) = << error(cs[r], FailedMsg) >>
                      /\ ~ Has(EnqueuedFor(cs[r]), IsFailed)
                /\ \A c \in Others(cs) : PutFor(c) = << >>
                /\ schedulers'[i].todo = Tail(schedulers[i].todo)
                /\ schedulers'[i].queue = schedulers[i].queue
                /\ schedulers'[i].wpc =
                      IF Tail(schedulers[i].todo) = << >> THEN "idle"
                      ELSE IF from_calls(Head(Tail(schedulers[i].todo))).is_score
                           THEN "score" ELSE "gen"
       /\ last'.op # "fail" =>
            \A s \in Sessions : ~ Has(Put(s), IsFailed)
       /\ \A i \in DOMAIN schedulers :
            (schedulers[i].wpc # "exited" /\ schedulers'[i].wpc = "exited")
                => schedulers[i].kill_event
      ]_vars

\* the backend has failed on the first batch of a drain and the worker is
\* running the second
C8_Witness ==
    /\ last.op = "fail"
    /\ schedulers[last.ret].wpc \in {"gen", "score"}
    /\ \E c \in DOMAIN calls :
          Has(EnqueuedFor(c), IsFailed) /\ ~ InFlight(c)

\* the token payloads put so far for call c
TokensFor(c) == SelectSeq(EnqueuedFor(c), IsToken)

\* C9: (as stated) when generate returns for a call that ran alone in its
\* batch, uncancelled, with max_tokens = n and no EOS before step n, the call
\* has been put exactly n TOKEN payloads and only the n-th carries a
\* finish_reason
C9_ExactlyNTokenPayloads ==
    [][\A i \in DOMAIN schedulers :
         LET cs == Head(schedulers[i].todo)
             n == from_calls(cs).max_tokens
         IN (/\ Streamer(i) /\ last'.n = 1
             /\ Len(cs) = 1
             /\ ~ calls[cs[1]].cancelled
             /\ schedulers[i].k = n
             /\ \A j \in DOMAIN TokensFor(cs[1]) :
                   j < n => TokensFor(cs[1])[j].token # EOS)
            => LET ps == SelectSeq(enqueued'[calls[cs[1]].result_queue],
                                   LAMBDA p : p.call = cs[1] /\ IsToken(p))
               IN /\ Len(ps) = n
                  /\ \A j \in DOMAIN ps :
                        (ps[j].finish_reason # "none") <=> (j = n)
      ]_vars

RECURSIVE IsPrefix(_, _)
IsPrefix(a, b) ==
    \/ a = << >>
    \/ /\ b # << >>
       /\ Head(a) = Head(b)
       /\ IsPrefix(Tail(a), Tail(b))

\* C10: what the transport has been sent is a prefix of what was put on the
\* session's output queue, and while the session is open it is followed by
\* exactly what waits on the queue; the token payloads put for one call
\* carry the numbers of consecutive streamer invocations, 1, 2, ...
C10_FifoAndGenerationOrder ==
    /\ \A s \in Sessions :
          /\ IsPrefix(transport[s], enqueued[s])
          /\ sessions[s].state = "open" =>
                enqueued[s] = transport[s] \o output_stream[s]
    /\ \A c \in DOMAIN calls :
          \A j \in DOMAIN TokensFor(c) : TokensFor(c)[j].step = j

\* the two token payloads of one call have been sent after the payload of
\* another stream
C10_Witness ==
    /\ sessions[1].state = "open"
    /\ \E c \in DOMAIN calls :
          /\ Len(SelectSeq(SentFor(c), IsToken)) >= 2
          /\ Len(transport[calls[c].result_queue]) >= 3

\* the step completes a CANCEL of session s
Cancels(s) == last'.op = "CANCEL" /\ last'.session = s

\* C11: (as stated) a CANCEL puts exactly one payload, a MSG on its
\* acknowledgement stream id: "cancel requested", with the target's entry
\* removed and its call cancelled, if the target was in active_stream when
\* the command was handled, and otherwise "no active stream with id" and the
\* target's id, no cancelled flag changed
C11_OneAckPerCancel ==
    [][\A s \in Sessions :
         Cancels(s) =>
            LET msg_id == last'.ret
                target == last'.stream_id
            IN /\ Len(Put(s)) = 1
               /\ Put(s)[1].type = "MSG"
               /\ Put(s)[1].stream_id = msg_id
               /\ IF sessions[s].pending # << >>
                  THEN /\ Put(s)[1].body = "cancel requested"
                       /\ sessions'[s].active_stream[target] = 0
                       /\ \E c \in DOMAIN calls :
                             /\ calls[c].stream_id = target
                             /\ calls[c].result_queue = s
                             /\ calls'[c].cancelled
                  ELSE /\ Put(s)[1] = NoActiveStream(msg_id, target)
                       /\ calls' = calls
      ]_vars

\* C12: (as stated) handle of an unknown command, or of a command that lacks
\* a field, puts exactly one MSG error payload on the command's stream id,
\* raises nothing, enqueues no call and leaves the session open
C12_HandleNeverRaises ==
    [][\A s \in Sessions :
         (last'.op \in {"UNKNOWN", "MISSING"} /\ last'.session = s) =>
            /\ ~ last'.raised
            /\ Len(Put(s)) = 1
            /\ Put(s)[1].type = "MSG"
            /\ Put(s)[1].stream_id = last'.stream_id
            /\ calls' = calls
            /\ schedulers' = schedulers
            /\ sessions'[s].state = "open"
      ]_vars

\* the identifier of scheduler object x
IdOf(S, x) == identifier(S[x].model_identifier, S[x].model_args)

\* no scheduler is constructed for an identifier the registry holds
C13_ConstructedOnlyIfAbsent ==
    Len(schedulers') > Len(schedulers) =>
        instances[IdOf(schedulers', Len(schedulers'))] = 0

\* dealloc is not run on a scheduler already deallocated
C13_DeallocatedOnce == last'.op = "dealloc" => ~ last'.raised

\* a scheduler that has a user is in the registry
C13_NoRegistrationLost ==
    \A x \in DOMAIN schedulers' :
        schedulers'[x].users # {} => \E k \in Keys : instances'[k] = x

\* C13: (as stated) with instance and gc called from different threads and
\* interleaved statement by statement, a scheduler is constructed only for
\* an identifier that is absent, no scheduler is deallocated twice, and no
\* scheduler with a registered user is evicted
C13_ConcurrentRegistryConsistent ==
    [][/\ C13_ConstructedOnlyIfAbsent
       /\ C13_DeallocatedOnce
       /\ C13_NoRegistrationLost]_vars


\* the batches a worker has assembled and not finished yet
Assembled ==
    UNION {{schedulers[i].todo[j] : j \in DOMAIN schedulers[i].todo} :
              i \in DOMAIN schedulers}

PromptOf(cs, i) == calls[cs[i]].prompt

\* C14: in the batch from_calls builds of an assembled list of calls, every
\* row of input_ids and of attention_mask has the length of the longest
\* prompt; row i is zeros followed by the prompt of call i, its mask is 0
\* over the zeros and 1 over the prompt; and in a score batch
\* scoring_offsets[i] is the call's own offset plus the number of zeros, so
\* that the row from that offset on is the scored tokens of call i.
C14_LeftPaddedRows ==
    \A cs \in Assembled :
        LET b == from_calls(cs)
            Lmax == SeqMax([j \in DOMAIN cs |-> Len(PromptOf(cs, j))])
        IN \A i \in DOMAIN cs :
              LET prompt == PromptOf(cs, i)
                  pad == Lmax - Len(prompt)
                  own == Get(calls[cs[i]].kwargs, "scoring_offset", 0)
              IN /\ Len(b.input_ids[i]) = Lmax
                 /\ Len(b.attention_mask[i]) = Lmax
                 /\ \A j \in 1..Lmax :
                       IF j <= pad
                       THEN b.input_ids[i][j] = 0 /\ b.attention_mask[i][j] = 0
                       ELSE /\ b.input_ids[i][j] = prompt[j - pad]
                            /\ b.attention_mask[i][j] = 1
                 /\ b.is_score =>
                       /\ b.scoring_offsets[i] = own + pad
                       /\ SubSeq(b.input_ids[i], b.scoring_offsets[i] + 1, Lmax)
                            = SubSeq(prompt, own + 1, Len(prompt))

\* a score batch of two calls has been assembled whose first prompt is the
\* shorter one
C14_Witness ==
    \E cs \in Assembled :
        /\ from_calls(cs).is_score
        /\ Len(cs) = 2 /\ Len(PromptOf(cs, 1)) < Len(PromptOf(cs, 2))

\* the k tokens of the highest scores of a row
TopK(row, k) ==
    {t \in Tokens : Cardinality({u \in Tokens : row[u] > row[t]}) < k}

Requested(c) ==
    LET n == Get(calls[c].kwargs, "top_logprobs", 1)
    IN IF n >= 1 THEN n ELSE 1

\* the scores the streamer invocation of this step was given
ScoresOf(i) ==
    IF last'.n = 0 THEN schedulers'[i].scores ELSE schedulers[i].scores

\* the token payload p of row r has the entries the call of that row asked for
SizedForCall(p, row, c) ==
    /\ Cardinality(p.top_logprobs)
          = Requested(c) + (IF p.token \in TopK(row, Requested(c)) THEN 0 ELSE 1)
    /\ << p.token, p.logprob >> \in p.top_logprobs

\* C15: in every token payload a streamer invocation puts for a call,
\* top_logprobs has max(1, the call's requested top_logprobs) entries for
\* the top tokens of the row, one more if the emitted token is not among
\* them, and the entry of the emitted token is the payload's logprob;
\* also for a call batched with calls that request another top_logprobs
C15_TopLogprobsSizedPerCall ==
    [][\A i \in DOMAIN schedulers :
          Streamer(i) =>
              LET cs == Head(schedulers[i].todo) IN
              \A r \in DOMAIN cs :
                  \A j \in DOMAIN PutFor(cs[r]) :
                      IsToken(PutFor(cs[r])[j]) =>
                          SizedForCall(PutFor(cs[r])[j], ScoresOf(i)[r], cs[r])
      ]_vars

\* the same for the batches whose calls all request the same top_logprobs
C15_SizedWhenRequestsAgree ==
    [][\A i \in DOMAIN schedulers :
          Streamer(i) =>
              LET cs == Head(schedulers[i].todo) IN
              (\A r \in DOMAIN cs : Requested(cs[r]) = max_num_top_logprobs(cs))
              => \A r \in DOMAIN cs :
                    \A j \in DOMAIN PutFor(cs[r]) :
                        IsToken(PutFor(cs[r])[j]) =>
                            SizedForCall(PutFor(cs[r])[j], ScoresOf(i)[r], cs[r])
      ]_vars

\* the step is a drain of the queue of scheduler i: the worker leaves the
\* head of its loop with the batches of process_batch
Drains(i) ==
    /\ schedulers[i].wpc = "idle"
    /\ schedulers'[i].wpc \in {"gen", "score"}

\* the calls the drain took off the queue, in arrival order
Drained(i) ==
    SubSeq(schedulers[i].queue, 1,
           Len(schedulers[i].queue) - Len(schedulers'[i].queue))

Position(seq, x) == CHOOSE j \in DOMAIN seq : seq[j] = x

\* C16: the batches of one drain partition the drained calls: every drained
\* call is in exactly one batch at one row; the calls of a batch have the
\* same generation_mode, so they are all score calls or all generate calls
\* of one temperature; every batch has 1 to max_batch_size calls; and the
\* calls of a batch are in queue arrival order
C16_BatchesPartitionByMode ==
    [][\A i \in DOMAIN schedulers :
          Drains(i) =>
              LET taken == Drained(i)
                  bs == schedulers'[i].todo
              IN /\ \A t \in DOMAIN taken :
                       Cardinality({<< b, r >> \in (DOMAIN bs) \X (1..Len(taken)) :
                                      r \in DOMAIN bs[b] /\ bs[b][r] = taken[t]}) = 1
                 /\ \A b \in DOMAIN bs :
                       /\ Len(bs[b]) \in 1..MaxBatchSize
                       /\ \A r \in DOMAIN bs[b] :
                             \E t \in DOMAIN taken : taken[t] = bs[b][r]
                       /\ \A r, q \in DOMAIN bs[b] :
                             /\ generation_mode(calls[bs[b][r]])
                                  = generation_mode(calls[bs[b][q]])
                             /\ Get(calls[bs[b][r]].kwargs, "score", FALSE)
                                  = Get(calls[bs[b][q]].kwargs, "score", FALSE)
                             /\ ~ Get(calls[bs[b][r]].kwargs, "score", FALSE) =>
                                  Get(calls[bs[b][r]].kwargs, "temperature", 0)
                                    = Get(calls[bs[b][q]].kwargs, "temperature", 0)
                             /\ r < q => Position(taken, bs[b][r])
                                           < Position(taken, bs[b][q])
      ]_vars

\* a drain of a generate call, a score call and a second generate call like
\* the first made a batch of the two generate calls and one of the score call
C16_Witness ==
    \E i \in DOMAIN schedulers :
        /\ Cardinality(schedulers[i].held) = 3
        /\ Len(schedulers[i].todo) = 2
        /\ Len(schedulers[i].todo[1]) = 2
        /\ schedulers[i].todo[1][1] + 2 = schedulers[i].todo[1][2]
        /\ Get(calls[schedulers[i].todo[2][1]].kwargs, "score", FALSE)

\* C17: a call whose cancelled flag is set when the worker drains it from
\* the queue is in none of the batches the drain assembles
C17_CancelledDiscardedOnAssembly ==
    [][\A i \in DOMAIN schedulers :
          Drains(i) =>
              LET taken == Drained(i)
                  bs == schedulers'[i].todo
              IN \A t \in DOMAIN taken :
                    calls[taken[t]].cancelled =>
                        \A b \in DOMAIN bs, r \in 1..MaxBatchSize :
                            r \in DOMAIN bs[b] => bs[b][r] # taken[t]
      ]_vars

\* C18: when a session has been closed it is in the users set of no
\* scheduler of the registry, whatever commands it handled before
C18_ClosedSessionUsesNothing ==
    \A s \in Sessions :
        sessions[s].state # "open" =>
            \A id \in Keys :
                instances[id] # 0 => s \notin schedulers[instances[id]].users

\* the step is the second run of close on session s, from the output loop
\* that the first run cancelled
ClosesAgain(s) == Closes(s) /\ last'.n = 2

\* C19: the second run of close on a closed session constructs no
\* scheduler, deallocates none and changes no users set
C19_SecondCloseLeavesRegistry ==
    [][\A s \in Sessions :
          ClosesAgain(s) =>
              /\ instances' = instances
              /\ Len(schedulers') = Len(schedulers)
              /\ \A i \in DOMAIN schedulers :
                    /\ schedulers'[i].users = schedulers[i].users
                    /\ schedulers'[i].kill_event = schedulers[i].kill_event
      ]_vars

\* a payload that ends a stream: one with a finish_reason, or an error
IsTerminal(p) ==
    p.type = "TOKEN" /\ (p.finish_reason # "none" \/ IsCancelled(p) \/ IsFailed(p))

\* C20: of the payloads put for a call only the last one can be terminal:
\* a call gets at most one terminal payload and nothing after it
C20_TerminalPayloadIsLast ==
    \A c \in DOMAIN calls :
        \A j \in DOMAIN EnqueuedFor(c) :
            IsTerminal(EnqueuedFor(c)[j]) => j = Len(EnqueuedFor(c))

\* call c is in a batch of the current drain of scheduler i
InBatch(i, c) ==
    /\ i \in DOMAIN schedulers
    /\ \E b \in DOMAIN schedulers[i].todo :
          \E r \in DOMAIN schedulers[i].todo[b] : schedulers[i].todo[b][r] = c

\* the queue positions and batch rows that hold call c
Places(c) ==
    UNION {{<< "queue", i, j >> : j \in {j \in DOMAIN schedulers[i].queue :
                                           schedulers[i].queue[j] = c}}
             \cup {<< "batch", i, b, r >> :
                      << b, r >> \in {x \in (DOMAIN schedulers[i].todo)
                                            \X (1..MaxBatchSize) :
                                        /\ x[2] \in DOMAIN schedulers[i].todo[x[1]]
                                        /\ schedulers[i].todo[x[1]][x[2]] = c}} :
           i \in DOMAIN schedulers}

Killed(i) == i \in DOMAIN schedulers /\ schedulers[i].kill_event

HasTerminal(c) == c \in DOMAIN calls /\ Has(EnqueuedFor(c), IsTerminal)

\* a generate call, or a score call with at least one scored token
HasRows(c) ==
    /\ c \in DOMAIN calls
    /\ Get(calls[c].kwargs, "score", FALSE) =>
          Len(calls[c].prompt) > Get(calls[c].kwargs, "scoring_offset", 0)

\* every call that leaves a batch of scheduler i in this step, its batch
\* having ended, has a terminal payload on its output queue, if it is one of
\* the calls Due
LeavesAnswered(Due(_)) ==
    \A i \in DOMAIN schedulers, c \in DOMAIN calls :
        (Due(c) /\ InBatch(i, c) /\ ~ InBatch(i, c)') => HasTerminal(c)'

AnyCall(c) == TRUE

\* every queue of a scheduler that is not killed has been drained, and
\* every batch of every drain has ended
AllDrained ==
    \A i \in DOMAIN schedulers : Killed(i) \/ schedulers[i].queue = << >>

AllEnded ==
    \A i \in DOMAIN schedulers : schedulers[i].todo = << >>

\* C21: with the worker scheduled fairly and a backend whose invocations
\* return, every call put on the queue of a scheduler that is not killed is
\* eventually drained into exactly one batch and eventually has a terminal
\* payload on its output queue: a call is never at two places (queue
\* positions or batch rows), the queues of the schedulers not killed are
\* eventually drained for good, every batch eventually ends, and a call
\* whose batch ends has a terminal payload
C21_EveryCallDrainedAndAnswered ==
    /\ [](\A c \in DOMAIN calls : Cardinality(Places(c)) <= 1)
    /\ [][LeavesAnswered(AnyCall)]_vars
    /\ <>[]AllDrained
    /\ <>[]AllEnded

\* the same, a terminal payload being due only to generate calls and to
\* score calls with at least one scored token
C21_CallsWithRowsAnswered ==
    /\ [](\A c \in DOMAIN calls : Cardinality(Places(c)) <= 1)
    /\ [][LeavesAnswered(HasRows)]_vars
    /\ <>[]AllDrained
    /\ <>[]AllEnded

=============================================================================
